---- MODULE Spec2Model ----
(***************************************************************************)
(* The auction backend: account registration / sign-in and time-boxed      *)
(* bidding over HTTP, backed by the User and AuctionItem collections.      *)
(*                                                                         *)
(* The repository holds the server in three variants:                      *)
(*   "server"  backend/server.js (src/unnamed/part_001 is the same code)   *)
(*   "A"       src/unnamed/part_000, lines 1-213                           *)
(*   "B"       src/unnamed/part_000, lines 215-420                         *)
(* The variable variant says which of them is running; it never changes.   *)
(*                                                                         *)
(* Every async handler is cut at its awaits: the step that issues the      *)
(* first store operation, the continuation that runs between two awaits    *)
(* (synchronously, so atomically), and the step in which a save reaches    *)
(* the store and the response is sent.                                     *)
(***************************************************************************)
EXTENDS Integers, Sequences, FiniteSets, TLC

\* ------------------------------------------------------------------ bounds
NProc == 2
MaxAuctions == 1
MaxTime == 2
MaxBid == 3
MaxUsers == 2
MaxBids == 3
MaxViews == 1

Procs == 1..NProc
Variants == {"server", "A", "B"}
Amounts == 1..MaxBid

\* ------------------------------------------------------- request bodies
\* A JSON body field: absent, a number, or a non-numeric string.
Absent == [t |-> "absent", n |-> 0]
NonNumeric == [t |-> "str", n |-> 0]
Num(k) == [t |-> "num", n |-> k]
StartingBids == {Absent, NonNumeric} \cup {Num(k) : k \in 0..(MaxBid - 1)}
ClosingTimes == {Absent} \cup {Num(k) : k \in 1..(MaxTime - 1)}
\* The bodies of POST /auction: well-formed ones, and ones with one field
\* absent or empty.
AuctionBodies ==
  {[itemName |-> "lamp", description |-> "old", startingBid |-> s, closingTime |-> c] :
     s \in StartingBids, c \in ClosingTimes}
  \cup {[itemName |-> "", description |-> "old", startingBid |-> Num(1),
         closingTime |-> Num(1)],
        [itemName |-> "lamp", description |-> "", startingBid |-> Num(1),
         closingTime |-> Num(1)]}
Passwords == {"", "pw"}
WrongPassword == "oops"
\* A signin body without a password field.
AbsentPassword == "<absent>"

\* JavaScript's !x on a body field: absent, 0 and "" are falsy.
Falsy(v) == v.t = "absent" \/ (v.t = "num" /\ v.n = 0)

\* ------------------------------------------------------------ documents
NoDoc == [none |-> TRUE]
NoItem == [none |-> TRUE]
NoReq == [kind |-> "none"]
NoOut == [kind |-> "none"]
Null == "null"

VARIABLES
  variant,      \* which server file is running
  now,          \* the clock read by new Date()
  users,        \* the User collection, in insertion order; _id is the index
  auctions,     \* the AuctionItem collection; _id is the index
  pc,           \* where each in-flight request stands
  req,          \* its parameters, body and req.user
  item,         \* the document its handler holds: as read, and as modified
  out,          \* the response sent by the last step, if it sent one
  overlap,      \* whether a request may be taken up while another is in flight
  served,       \* how many bid and view requests have been taken up
  ledger        \* per auction, kept beside the store: whether a bid save has
                \* reached it, and the highest amount submitted while it was
                \* open with the first bidder to submit that amount

vars == <<variant, now, users, auctions, pc, req, item, out, overlap, served, ledger>>

\* Usernames are interchangeable: a request names the empty string, a stored
\* user, or the next name not yet stored.
Username(i) == "user" \o ToString(i)
Usernames ==
  {""} \cup {Username(i) : i \in 1..(IF Len(users) < MaxUsers THEN Len(users) + 1
                                     ELSE MaxUsers)}

\* userSchema's _id, as the token and highestBidder (variant B) carry it.
UserId(i) == "id" \o ToString(i)

\* ------------------------------------------------------------ authenticate
\* jwt.sign's claims for a stored user; tokens carry no server state, and a
\* user record is never changed or removed, so the tokens that can have been
\* issued are those of the stored users.
Claims(i) == [userId |-> UserId(i), username |-> users[i].username]
BadToken == [userId |-> "forged", username |-> "forged"]
NoHeader == [scheme |-> "none", token |-> BadToken]
Headers ==
  {NoHeader} \cup
  {[scheme |-> s, token |-> t] :
     s \in {"Bearer", "Raw"}, t \in {Claims(i) : i \in DOMAIN users} \cup {BadToken}}

\* The token authenticate hands to jwt.verify, or Absent-like "none".
\* server: authorization?.split(' ')[1]; A, B: the part after 'Bearer ', or
\* the whole header.
HasToken(h) ==
  IF variant = "server" THEN h.scheme = "Bearer" ELSE h.scheme # "none"

\* 0: next() is called with req.user set; 401 / 403: the response sent.
Authenticate(h) ==
  IF h.scheme = "none" THEN 401
  ELSE IF ~HasToken(h) THEN 401
  ELSE IF h.token = BadToken THEN 403
  ELSE 0

\* ---------------------------------------------------------------- store
\* An :id that is not the 24 hex digits of an ObjectId: findById's cast of
\* it fails, the await rejects and the handler's catch answers 500.
\* Stored records have the ids 1, 2, ...; 0 stands for such a string.
BadId == 0
CastFails(id) == id = BadId

FindById(id) == IF id \in DOMAIN auctions THEN auctions[id] ELSE NoDoc

FindNoUser(name) == {}
FindUser(name) == {i \in DOMAIN users : users[i].username = name}

\* The paths mongoose has marked modified: those set to a different value.
ModifiedPaths(it) == {f \in DOMAIN it.doc : it.doc[f] # it.read[f]}

\* A document's save() sends only its modified paths ($set) to the store.
SaveWhole(stored, it) == it.doc
SaveNothing(stored, it) == stored
Save(stored, it) ==
  [f \in DOMAIN stored |-> IF f \in ModifiedPaths(it) THEN it.doc[f] ELSE stored[f]]

\* res.json(document): the fields the schema declares. The schemas of variants
\* A and B declare no startingBid, so their documents never hold one.
Json(doc) ==
  IF variant = "server" THEN doc
  ELSE [f \in DOMAIN doc \ {"startingBid"} |-> doc[f]]

\* ------------------------------------------------------------ bid rules
Expired(t, closingTime) == t > closingTime

BidNotPositive(bid, currentBid) == bid <= 0
BidBelow(bid, currentBid) == bid < currentBid
BidTooLow(bid, currentBid) == bid <= currentBid

EmptyBidder == IF variant = "B" THEN Null ELSE ""

\* What the bid handler stores as highestBidder for req.user.
BidderOf(user) == IF variant = "B" THEN user.userId ELSE user.username

ApplyBidKeepBidder(doc, bid, user) == [doc EXCEPT !.currentBid = bid]
ApplyBidKeepAmount(doc, bid, user) == [doc EXCEPT !.highestBidder = BidderOf(user)]
ApplyBidExtend(doc, bid, user) ==
  [doc EXCEPT !.currentBid = bid, !.highestBidder = BidderOf(user),
              !.closingTime = @ + 1]
ApplyBid(doc, bid, user) ==
  [doc EXCEPT !.currentBid = bid, !.highestBidder = BidderOf(user)]

AllIdle == \A q \in Procs : pc[q] = "idle"

\* No response is waiting to leave: the server takes its next step.
Quiet == out = NoOut

\* A request is taken up by the first free slot.
Idle(p) ==
  /\ Quiet
  /\ pc[p] = "idle"
  /\ \A q \in Procs : q < p => pc[q] # "idle"
  /\ overlap \/ AllIdle

\* Signup touches only the User collection, POST /auction touches the store
\* in its save alone, signin and the listing only read, and a request that
\* authenticate rejects touches nothing: their steps commute with those of
\* the other handlers, and each is explored running alone. Signups race
\* with one another for a username, and are explored overlapping each other.
Alone == AllIdle
AmongSignups == \A q \in Procs : req[q].kind \in {"none", "signup"}
Isolated == \A q \in Procs : req[q].kind \notin {"signup", "create"}

Done(p, response) ==
  /\ pc' = [pc EXCEPT ![p] = "idle"]
  /\ req' = [req EXCEPT ![p] = NoReq]
  /\ item' = [item EXCEPT ![p] = NoItem]
  /\ out' = response

InitStore ==
  /\ variant \in Variants
  /\ now = 0
  /\ users = <<>>
  /\ auctions = <<>>
  /\ pc = [p \in Procs |-> "idle"]
  /\ req = [p \in Procs |-> NoReq]
  /\ item = [p \in Procs |-> NoItem]
  /\ out = NoOut
  /\ served = [bids |-> 0, views |-> 0]
  /\ ledger = <<>>

Init == InitStore /\ overlap = TRUE
SeqInit == InitStore /\ overlap = FALSE

\* The response leaves the server.
Deliver ==
  /\ out # NoOut
  /\ out' = NoOut
  /\ UNCHANGED <<variant, overlap, now, users, auctions, pc, req, item, served, ledger>>

\* The clock advances between any two steps.
Tick ==
  /\ Quiet
  /\ now < MaxTime
  /\ now' = now + 1
  /\ out' = NoOut
  /\ UNCHANGED <<variant, overlap, users, auctions, pc, req, item, served, ledger>>

\* ------------------------------------------------------------ POST /signup
Hash(password) == <<"bcrypt", password>>
Compare(password, digest) == digest = Hash(password)
\* bcrypt.compare rejects when the password is not a string; the handler's
\* catch answers 500.
CompareThrows(password) == password = AbsentPassword

MissingCredentials(username, password) == username = "" \/ password = ""

ConflictStatus == IF variant = "B" THEN 409 ELSE 400
InvalidCredentialsStatus == IF variant = "B" THEN 401 ELSE 400

SignupStart(p, username, password) ==
  /\ Idle(p)
  /\ AmongSignups
  /\ Len(users) + Cardinality({q \in Procs : req[q].kind = "signup"}) < MaxUsers
  /\ IF MissingCredentials(username, password)
     THEN /\ Done(p, [kind |-> "signup", status |-> 400, outcome |-> "InvalidInput",
                      username |-> username])
     ELSE /\ pc' = [pc EXCEPT ![p] = "signupCheck"]
          /\ req' = [req EXCEPT ![p] = [kind |-> "signup", username |-> username,
                                        password |-> password,
                                        existingUser |-> FindUser(username) # {}]]
          /\ out' = NoOut
          /\ UNCHANGED item
  /\ UNCHANGED <<variant, overlap, now, users, auctions, served, ledger>>

SignupCheck(p) ==
  /\ Quiet
  /\ pc[p] = "signupCheck"
  /\ IF req[p].existingUser
     THEN Done(p, [kind |-> "signup", status |-> ConflictStatus, outcome |-> "Conflict",
                   username |-> req[p].username])
     ELSE /\ pc' = [pc EXCEPT ![p] = "signupSave"]
          /\ out' = NoOut
          /\ UNCHANGED <<req, item>>
  /\ UNCHANGED <<variant, overlap, now, users, auctions, served, ledger>>

\* userSchema's username is unique: true; the index refuses a record whose
\* username is already stored.
NoUniqueIndex(username) == FALSE
DuplicateKey(username) == FindUser(username) # {}

\* newUser.save() / User.create: the unique index on username rejects a
\* second record with a duplicate-key error, which the catch turns into 500.
SignupSave(p) ==
  /\ Quiet
  /\ pc[p] = "signupSave"
  /\ IF DuplicateKey(req[p].username)
     THEN /\ Done(p, [kind |-> "signup", status |-> 500, outcome |-> "StorageError",
                      username |-> req[p].username])
          /\ UNCHANGED users
     ELSE /\ users' = Append(users, [username |-> req[p].username,
                                     password |-> Hash(req[p].password)])
          /\ Done(p, [kind |-> "signup", status |-> 201, outcome |-> "Registered",
                      username |-> req[p].username])
  /\ UNCHANGED <<variant, overlap, now, auctions, served, ledger>>

\* ------------------------------------------------------------ POST /signin
\* findOne and bcrypt.compare change nothing; the handler is one step.
Signin(p, username, password) ==
  /\ Idle(p)
  /\ Alone
  /\ LET found == FindUser(username) IN
     IF found = {}
     THEN Done(p, [kind |-> "signin", status |-> InvalidCredentialsStatus,
                   outcome |-> "InvalidCredentials", username |-> username,
                   password |-> password])
     ELSE LET i == CHOOSE j \in found : TRUE IN
          IF CompareThrows(password)
          THEN Done(p, [kind |-> "signin", status |-> 500, outcome |-> "StorageError",
                        username |-> username, password |-> password])
          ELSE IF ~Compare(password, users[i].password)
          THEN Done(p, [kind |-> "signin", status |-> InvalidCredentialsStatus,
                        outcome |-> "InvalidCredentials", username |-> username,
                        password |-> password])
          ELSE Done(p, [kind |-> "signin", status |-> 200, outcome |-> "SignedIn",
                        username |-> username, password |-> password,
                        token |-> Claims(i)])
  /\ UNCHANGED <<variant, overlap, now, users, auctions, served, ledger>>

\* ----------------------------------------------------------- POST /auction
\* server: !startingBid rejects an absent field and 0; A, B: startingBid ==
\* null rejects only an absent field. closingTime is a date string: falsy
\* only when absent.
InvalidAuction(itemName, description, startingBid, closingTime) ==
  \/ itemName = ""
  \/ description = ""
  \/ IF variant = "server" THEN Falsy(startingBid) ELSE startingBid.t = "absent"
  \/ closingTime.t = "absent"

NewItemNamed(itemName, description, startingBid, closingTime) ==
  [itemName |-> itemName, description |-> description,
   startingBid |-> startingBid.n, currentBid |-> startingBid.n,
   highestBidder |-> "none", closingTime |-> closingTime.n,
   isClosed |-> FALSE]
\* new AuctionItem({...}): currentBid is startingBid, highestBidder '' (B:
\* the schema default null), isClosed the schema default false. Variants A
\* and B store no startingBid; the field then records what the auction was
\* created with.
NewItem(itemName, description, startingBid, closingTime) ==
  [itemName |-> itemName, description |-> description,
   startingBid |-> startingBid.n, currentBid |-> startingBid.n,
   highestBidder |-> EmptyBidder, closingTime |-> closingTime.n,
   isClosed |-> FALSE]

CreateStart(p, h, body) ==
  LET itemName == body.itemName
      description == body.description
      startingBid == body.startingBid
      closingTime == body.closingTime
  IN
  /\ Idle(p)
  /\ Alone
  /\ Len(auctions) + Cardinality({q \in Procs : req[q].kind = "create"}) < MaxAuctions
  /\ IF Authenticate(h) # 0
     THEN Done(p, [kind |-> "create", status |-> Authenticate(h),
                   outcome |-> IF Authenticate(h) = 401 THEN "AuthMissing"
                               ELSE "AuthInvalid",
                   header |-> h, input |-> body])
     ELSE IF InvalidAuction(itemName, description, startingBid, closingTime)
     THEN Done(p, [kind |-> "create", status |-> 400, outcome |-> "InvalidInput",
                   header |-> h, input |-> body])
     ELSE /\ pc' = [pc EXCEPT ![p] = "createSave"]
          /\ req' = [req EXCEPT ![p] = [kind |-> "create", itemName |-> itemName,
                                        description |-> description,
                                        startingBid |-> startingBid,
                                        closingTime |-> closingTime,
                                        header |-> h, body |-> body]]
          /\ out' = NoOut
          /\ UNCHANGED item
  /\ UNCHANGED <<variant, overlap, now, users, auctions, served, ledger>>

\* newItem.save(): a startingBid that does not cast to Number fails
\* validation, and the catch answers 500; otherwise the record is inserted.
CreateSave(p) ==
  /\ Quiet
  /\ pc[p] = "createSave"
  /\ IF req[p].startingBid.t # "num"
     THEN /\ Done(p, [kind |-> "create", status |-> 500, outcome |-> "StorageError",
                      header |-> req[p].header, input |-> req[p].body])
          /\ UNCHANGED <<auctions, ledger>>
     ELSE LET newItem == NewItem(req[p].itemName, req[p].description,
                                 req[p].startingBid, req[p].closingTime) IN
          /\ auctions' = Append(auctions, newItem)
          /\ ledger' = Append(ledger, [accepted |-> FALSE, top |-> newItem.startingBid,
                                       first |-> EmptyBidder])
          /\ Done(p, [kind |-> "create", status |-> 201, outcome |-> "Created",
                      id |-> Len(auctions) + 1, item |-> newItem, at |-> now,
                      header |-> req[p].header, input |-> req[p].body])
  /\ UNCHANGED <<variant, overlap, now, users, served>>

\* ------------------------------------------------------------ GET /auctions
ActiveFilter(doc, t) == ~doc.isClosed /\ doc.closingTime > t
ClosedFilter(doc, t) == doc.isClosed \/ doc.closingTime < t

\* server: the status query selects; A, B: find() returns every record.
Listed(status, t) ==
  {id \in DOMAIN auctions :
     IF variant # "server" THEN TRUE
     ELSE IF status = "active" THEN ActiveFilter(auctions[id], t)
     ELSE IF status = "closed" THEN ClosedFilter(auctions[id], t)
     ELSE TRUE}

List(p, status) ==
  /\ Idle(p)
  /\ Alone
  /\ Done(p, [kind |-> "list", status |-> 200, filter |-> status, at |-> now,
              ids |-> Listed(status, now)])
  /\ UNCHANGED <<variant, overlap, now, users, auctions, served, ledger>>

\* -------------------------------------------------------- GET /auctions/:id
\* Variant B defines no such route.
ViewStart(p, id) ==
  /\ Idle(p)
  /\ Isolated
  /\ variant # "B"
  /\ served.views < MaxViews
  /\ IF CastFails(id)
     THEN /\ Alone
          /\ UNCHANGED served
          /\ Done(p, [kind |-> "view", status |-> 500, outcome |-> "StorageError",
                      id |-> id, read |-> NoDoc, at |-> now, wrote |-> FALSE])
     ELSE /\ served' = [served EXCEPT !.views = @ + 1]
          /\ pc' = [pc EXCEPT ![p] = "viewCheck"]
          /\ req' = [req EXCEPT ![p] = [kind |-> "view", id |-> id]]
          /\ item' = [item EXCEPT ![p] = [read |-> FindById(id), doc |-> FindById(id),
                                          at |-> 0]]
          /\ out' = NoOut
  /\ UNCHANGED <<variant, overlap, now, users, auctions, ledger>>

\* server: an open record past its closing time is marked closed and saved;
\* A: the record is returned as stored.
ViewCheck(p) ==
  /\ Quiet
  /\ pc[p] = "viewCheck"
  /\ LET auctionItem == item[p].doc IN
     IF auctionItem = NoDoc
     THEN Done(p, [kind |-> "view", status |-> 404, outcome |-> "NotFound",
                   id |-> req[p].id, read |-> NoDoc, at |-> now, wrote |-> FALSE])
     ELSE IF variant = "server" /\ ~auctionItem.isClosed
             /\ Expired(now, auctionItem.closingTime)
     THEN /\ pc' = [pc EXCEPT ![p] = "viewSave"]
          /\ item' = [item EXCEPT ![p] = [read |-> @.read,
                                          doc |-> [auctionItem EXCEPT !.isClosed = TRUE],
                                          at |-> now]]
          /\ out' = NoOut
          /\ UNCHANGED req
     ELSE Done(p, [kind |-> "view", status |-> 200, outcome |-> "Viewed",
                   id |-> req[p].id, read |-> item[p].read, at |-> now,
                   wrote |-> FALSE, body |-> Json(auctionItem)])
  /\ UNCHANGED <<variant, overlap, now, users, auctions, served, ledger>>

ViewSave(p) ==
  /\ Quiet
  /\ pc[p] = "viewSave"
  /\ auctions' = [auctions EXCEPT ![req[p].id] = Save(@, item[p])]
  /\ Done(p, [kind |-> "view", status |-> 200, outcome |-> "Viewed",
              id |-> req[p].id, read |-> item[p].read, at |-> item[p].at,
              wrote |-> TRUE, body |-> Json(item[p].doc)])
  /\ UNCHANGED <<variant, overlap, now, users, served, ledger>>

\* ------------------------------------------------------------ POST /bid/:id
BidStart(p, h, id, bid) ==
  /\ Idle(p)
  /\ Isolated
  /\ served.bids < MaxBids
  /\ IF Authenticate(h) # 0
     THEN /\ Alone
          /\ UNCHANGED served
          /\ Done(p, [kind |-> "bid", status |-> Authenticate(h),
                   outcome |-> IF Authenticate(h) = 401 THEN "AuthMissing"
                               ELSE "AuthInvalid",
                   id |-> id, bid |-> bid, read |-> NoDoc, at |-> now,
                   wrote |-> FALSE, header |-> h])
     ELSE IF CastFails(id)
     THEN /\ Alone
          /\ UNCHANGED served
          /\ Done(p, [kind |-> "bid", status |-> 500, outcome |-> "StorageError",
                      id |-> id, bid |-> bid, user |-> h.token, read |-> NoDoc,
                      at |-> now, wrote |-> FALSE])
     ELSE /\ served' = [served EXCEPT !.bids = @ + 1]
          /\ pc' = [pc EXCEPT ![p] = "bidCheck"]
          /\ req' = [req EXCEPT ![p] = [kind |-> "bid", id |-> id, bid |-> bid,
                                        user |-> h.token]]
          /\ item' = [item EXCEPT ![p] = [read |-> FindById(id), doc |-> FindById(id),
                                          at |-> 0]]
          /\ out' = NoOut
  /\ UNCHANGED <<variant, overlap, now, users, auctions, ledger>>

\* The body of the 'closed' answers: server carries the winner in both; A only
\* when it discovers the expiry itself; B in neither.
ClosedBody(doc, discovered) ==
  IF variant = "server" \/ (variant = "A" /\ discovered)
  THEN [message |-> "closed", winner |-> doc.highestBidder]
  ELSE [message |-> "closed"]

TooLowBody(doc) ==
  IF variant = "server"
  THEN [message |-> "too low", currentBid |-> doc.currentBid]
  ELSE [message |-> "too low"]

\* server answers 400 when it discovers the expiry; A and B answer 200.
DiscoveredStatus == IF variant = "server" THEN 400 ELSE 200

BidOut(p, status, outcome, wrote, at, body) ==
  [kind |-> "bid", status |-> status, outcome |-> outcome, id |-> req[p].id,
   bid |-> req[p].bid, user |-> req[p].user, read |-> item[p].read, at |-> at,
   wrote |-> wrote, body |-> body]

\* The ledger entry after a bid was put to an open auction.
Submit(entry, bid, user) ==
  IF bid > entry.top
  THEN [entry EXCEPT !.top = bid, !.first = BidderOf(user)]
  ELSE entry

\* The continuation of findById, up to the next await.
BidCheck(p) ==
  /\ Quiet
  /\ pc[p] = "bidCheck"
  /\ LET doc == item[p].doc
         bid == req[p].bid
     IN
     IF doc = NoDoc
     THEN /\ Done(p, BidOut(p, 404, "NotFound", FALSE, now, [message |-> "not found"]))
          /\ UNCHANGED ledger
     ELSE IF doc.isClosed
     THEN /\ Done(p, BidOut(p, 400, "AuctionClosed", FALSE, now, ClosedBody(doc, FALSE)))
          /\ UNCHANGED ledger
     ELSE IF Expired(now, doc.closingTime)
     THEN /\ pc' = [pc EXCEPT ![p] = "bidClose"]
          /\ item' = [item EXCEPT ![p] = [read |-> @.read,
                                          doc |-> [doc EXCEPT !.isClosed = TRUE],
                                          at |-> now]]
          /\ out' = NoOut
          /\ UNCHANGED <<req, ledger>>
     ELSE IF BidTooLow(bid, doc.currentBid)
     THEN /\ Done(p, BidOut(p, 400, "BidTooLow", FALSE, now, TooLowBody(doc)))
          /\ ledger' = [ledger EXCEPT ![req[p].id] = Submit(@, bid, req[p].user)]
     ELSE /\ pc' = [pc EXCEPT ![p] = "bidSave"]
          /\ item' = [item EXCEPT ![p] = [read |-> @.read,
                                          doc |-> ApplyBid(doc, bid, req[p].user),
                                          at |-> now]]
          /\ out' = NoOut
          /\ ledger' = [ledger EXCEPT ![req[p].id] = Submit(@, bid, req[p].user)]
          /\ UNCHANGED req
  /\ UNCHANGED <<variant, overlap, now, users, auctions, served>>

\* item.save() of the closing transition, then the 'closed' answer.
BidClose(p) ==
  /\ Quiet
  /\ pc[p] = "bidClose"
  /\ auctions' = [auctions EXCEPT ![req[p].id] = Save(@, item[p])]
  /\ Done(p, BidOut(p, DiscoveredStatus, "AuctionClosed", TRUE, item[p].at,
                    ClosedBody(item[p].doc, TRUE)))
  /\ UNCHANGED <<variant, overlap, now, users, served, ledger>>

\* item.save() of the accepted bid, then 'Bid successful'.
BidSave(p) ==
  /\ Quiet
  /\ pc[p] = "bidSave"
  /\ auctions' = [auctions EXCEPT ![req[p].id] = Save(@, item[p])]
  /\ ledger' = [ledger EXCEPT ![req[p].id].accepted = TRUE]
  /\ Done(p, BidOut(p, 200, "BidAccepted", TRUE, item[p].at,
                    [message |-> "ok", item |-> Json(item[p].doc)]))
  /\ UNCHANGED <<variant, overlap, now, users, served>>

\* ------------------------------------------------------------------ next
Ids == (1..MaxAuctions) \cup {BadId}

Next ==
  \/ Deliver
  \/ Tick
  \/ \E p \in Procs :
       \/ \E u \in Usernames, w \in Passwords : SignupStart(p, u, w)
       \/ SignupCheck(p)
       \/ SignupSave(p)
       \/ \E u \in Usernames, w \in Passwords \cup {WrongPassword, AbsentPassword} :
            Signin(p, u, w)
       \/ \E h \in Headers, b \in AuctionBodies : CreateStart(p, h, b)
       \/ CreateSave(p)
       \/ \E s \in {"all", "active", "closed"} : List(p, s)
       \/ \E id \in Ids : ViewStart(p, id)
       \/ ViewCheck(p)
       \/ ViewSave(p)
       \/ \E h \in Headers, id \in Ids, b \in Amounts : BidStart(p, h, id, b)
       \/ BidCheck(p)
       \/ BidClose(p)
       \/ BidSave(p)

\* Spec: requests overlap. SeqSpec: one request at a time.
Spec == Init /\ [][Next]_vars
SeqSpec == SeqInit /\ [][Next]_vars
\* ================================================================ claims

\* C1: under any interleaving of createAuction, view, list and placeBid
\* requests, every stored auction has currentBid >= startingBid.
C1_CurrentBidAtLeastStartingBid ==
  \A id \in DOMAIN auctions : auctions[id].currentBid >= auctions[id].startingBid

\* An accepted bid has just overwritten a higher one (a lost update), and the
\* record still stands above its starting bid.
C1_Witness ==
  /\ out.kind = "bid"
  /\ out.outcome = "BidAccepted"
  /\ auctions[out.id].currentBid < ledger[out.id].top
  /\ auctions[out.id].currentBid > auctions[out.id].startingBid

\* C2: the stored isClosed flag is monotonic: once a write has set it, no
\* later write of a view or placeBid request sets it back to false, not even
\* that of a placeBid that read the record while it was open.
C2_IsClosedMonotonic ==
  [][\A id \in DOMAIN auctions : auctions[id].isClosed => auctions'[id].isClosed]_vars

\* A bid that read the record open has saved after the record was closed.
C2_Witness ==
  /\ out.kind = "bid"
  /\ out.outcome = "BidAccepted"
  /\ ~out.read.isClosed
  /\ auctions[out.id].isClosed

\* C3: under any interleaving of placeBid requests, every write that sets
\* currentBid to amount happens when the stored currentBid is strictly less
\* than amount, so the stored currentBid never decreases.
C3_NoBidBelowRecordedBid ==
  [][\A p \in Procs :
       (pc[p] = "bidSave" /\ pc'[p] = "idle") =>
         /\ auctions[req[p].id].currentBid < req[p].bid
         /\ auctions'[req[p].id].currentBid >= auctions[req[p].id].currentBid]_vars

\* C4: once now >= closingTime (the instant now = closingTime included),
\* every view returns the record with isClosed = true and every placeBid
\* returns AuctionClosed, whatever the amount.
C4_ClosedFromClosingTimeOn ==
  /\ (out.kind = "view" /\ out.read # NoDoc /\ out.at >= out.read.closingTime)
       => out.body.isClosed
  /\ (out.kind = "bid" /\ out.read # NoDoc /\ out.at >= out.read.closingTime)
       => out.outcome = "AuctionClosed"

\* C5: a placeBid on an open auction with amount equal to the currentBid it
\* read yields BidTooLow; a bid is accepted only if amount > currentBid.
C5_EqualBidIsTooLow ==
  out.kind = "bid" =>
    /\ out.outcome = "BidAccepted" => out.bid > out.read.currentBid
    /\ ( /\ out.read # NoDoc
         /\ ~out.read.isClosed
         /\ out.at <= out.read.closingTime
         /\ out.bid = out.read.currentBid ) => out.outcome = "BidTooLow"

\* A bid equal to a currentBid that an earlier bid had raised is turned down.
C5_Witness ==
  /\ out.kind = "bid"
  /\ out.outcome = "BidTooLow"
  /\ out.bid = out.read.currentBid
  /\ out.read.currentBid > out.read.startingBid

\* C6: a placeBid on a closed auction (marked closed, or found expired in
\* this call) returns AuctionClosed carrying the highestBidder as winner,
\* whatever the amount, and leaves currentBid and highestBidder unchanged.
C6_ClosedBidCarriesWinner ==
  (out.kind = "bid" /\ out.outcome = "AuctionClosed") =>
    /\ "winner" \in DOMAIN out.body
    /\ out.body.winner = out.read.highestBidder
    /\ auctions[out.id].currentBid = out.read.currentBid
    /\ auctions[out.id].highestBidder = out.read.highestBidder

\* C7: the first view or placeBid that observes now >= closingTime while the
\* stored isClosed is false persists isClosed = true before it returns, and
\* a view returns the record with isClosed = true.
C7_FirstObserverPersistsClose ==
  ( /\ out.kind \in {"view", "bid"}
    /\ out.read # NoDoc
    /\ ~out.read.isClosed
    /\ out.at >= out.read.closingTime ) =>
       /\ auctions[out.id].isClosed
       /\ out.kind = "view" => out.body.isClosed

\* C8: a placeBid by bidder b with amount > currentBid on an open auction
\* yields BidAccepted and leaves the stored record with currentBid = amount,
\* highestBidder = b and isClosed still false.
C8_AcceptedBidIsStored ==
  out.kind = "bid" =>
    /\ ( /\ out.read # NoDoc
         /\ ~out.read.isClosed
         /\ out.at <= out.read.closingTime
         /\ out.bid > out.read.currentBid ) => out.outcome = "BidAccepted"
    /\ out.outcome = "BidAccepted" =>
         /\ out.status = 200
         /\ auctions[out.id].currentBid = out.bid
         /\ auctions[out.id].highestBidder \in {out.user.username, out.user.userId}
         /\ auctions[out.id].highestBidder \notin {"", Null}
         /\ ~auctions[out.id].isClosed

\* An accepted bid takes the lead from another bidder.
C8_Witness ==
  /\ out.kind = "bid"
  /\ out.outcome = "BidAccepted"
  /\ out.read.highestBidder \notin {"", Null}
  /\ out.read.highestBidder # auctions[out.id].highestBidder

\* C9: after any sequence of non-overlapping placeBid requests on an auction
\* that stays open, currentBid is the maximum of startingBid and the amounts
\* submitted, and highestBidder is the first bidder to have submitted that
\* maximum (empty if no amount exceeded startingBid).
C9_SequentialBidsKeepMaximum ==
  \A id \in DOMAIN auctions :
    (AllIdle /\ ~auctions[id].isClosed) =>
      /\ auctions[id].currentBid = ledger[id].top
      /\ auctions[id].highestBidder = ledger[id].first

\* The third of three bids is below the second, which was accepted over a
\* starting bid of 1: it is turned down and the second bid stands.
C9_Witness ==
  /\ out.kind = "bid"
  /\ out.outcome = "BidTooLow"
  /\ served.bids = 3
  /\ out.bid = 2
  /\ auctions[out.id].startingBid = 1
  /\ auctions[out.id].currentBid = 3
  /\ auctions[out.id].highestBidder = ledger[out.id].first
  /\ ~auctions[out.id].isClosed

\* C10: an auction's highestBidder is empty ('' or null) if and only if no
\* bid on it has ever been accepted.
C10_HighestBidderEmptyIffNoAcceptedBid ==
  \A id \in DOMAIN auctions :
    (auctions[id].highestBidder \in {"", Null}) <=> ~ledger[id].accepted

\* A closed auction with a winner.
C10_Witness ==
  \E id \in DOMAIN auctions :
    /\ ledger[id].accepted
    /\ auctions[id].isClosed
    /\ auctions[id].highestBidder \notin {"", Null}

\* C11: a placeBid call performs at most one store write, and one only when
\* its outcome is BidAccepted or AuctionClosed with the Open-to-Closed
\* transition found in this call; NotFound, BidTooLow and AuctionClosed on an
\* already-marked auction write nothing. The write is the handler's last step.
C11_AtMostOneWritePerBid ==
  [][ /\ (out.kind = "none" /\ out'.kind = "bid") =>
           /\ out'.wrote <=>
                \/ out'.outcome = "BidAccepted"
                \/ out'.outcome = "AuctionClosed" /\ ~out'.read.isClosed
           /\ ~out'.wrote => auctions' = auctions
           /\ (out'.wrote /\ out'.outcome = "BidAccepted") =>
                auctions'[out'.id].currentBid = out'.bid
           /\ (out'.wrote /\ out'.outcome = "AuctionClosed") =>
                auctions'[out'.id].isClosed
      /\ \A p \in Procs :
           (pc'[p] # pc[p] /\ pc'[p] \in {"bidCheck", "bidSave", "bidClose"}) =>
             auctions' = auctions ]_vars

\* A bid above currentBid found the auction expired: its one write closed it.
C11_Witness ==
  /\ out.kind = "bid"
  /\ out.outcome = "AuctionClosed"
  /\ out.wrote
  /\ ~out.read.isClosed
  /\ out.bid > out.read.currentBid
  /\ auctions[out.id].isClosed
  /\ auctions[out.id].currentBid = out.read.currentBid

\* C12: a placeBid with amount <= currentBid on an open auction returns
\* BidTooLow carrying the current currentBid, and leaves every field of the
\* stored record unchanged.
C12_TooLowCarriesCurrentBid ==
  out.kind = "bid" =>
    /\ ( /\ out.read # NoDoc
         /\ ~out.read.isClosed
         /\ out.at <= out.read.closingTime
         /\ out.bid <= out.read.currentBid ) => out.outcome = "BidTooLow"
    /\ out.outcome = "BidTooLow" =>
         /\ out.status = 400
         /\ ~out.wrote
         /\ auctions[out.id] = out.read
         /\ "currentBid" \in DOMAIN out.body
         /\ out.body.currentBid = out.read.currentBid

\* C13: a successful createAuction stores a record with currentBid =
\* startingBid, isClosed = false and highestBidder empty, and a view of that
\* auction before its closingTime (no bid accepted yet) returns the same
\* startingBid, currentBid = startingBid and isClosed = false.
C13_CreateViewRoundTrip ==
  /\ (out.kind = "create" /\ out.outcome = "Created") =>
       /\ out.id \in DOMAIN auctions
       /\ auctions[out.id].currentBid = auctions[out.id].startingBid
       /\ ~auctions[out.id].isClosed
       /\ auctions[out.id].highestBidder \in {"", Null}
  /\ ( /\ out.kind = "view"
       /\ out.read # NoDoc
       /\ out.at < out.read.closingTime
       /\ ~ledger[out.id].accepted ) =>
         /\ out.outcome = "Viewed"
         /\ "startingBid" \in DOMAIN out.body
         /\ out.body.startingBid = auctions[out.id].startingBid
         /\ out.body.currentBid = auctions[out.id].startingBid
         /\ ~out.body.isClosed

\* C14: createAuction rejects with InvalidInput exactly when one of itemName,
\* description, startingBid, closingTime is absent or startingBid is not
\* numeric, and a rejected request stores no record; a request with all four
\* fields present and a numeric startingBid, 0 included, is accepted.
C14_CreateValidation ==
  [][ (out.kind = "none" /\ out'.kind = "create"
         /\ out'.outcome \notin {"AuthMissing", "AuthInvalid"}) =>
        LET b == out'.input
            bad == \/ b.itemName = ""
                   \/ b.description = ""
                   \/ b.startingBid.t # "num"
                   \/ b.closingTime.t = "absent"
        IN /\ bad <=> (out'.outcome = "InvalidInput" /\ out'.status = 400)
           /\ ~bad <=> (out'.outcome = "Created" /\ out'.status = 201)
           /\ out'.outcome # "Created" => auctions' = auctions
           /\ out'.outcome = "Created" => Len(auctions') = Len(auctions) + 1 ]_vars

\* C15: a createAuction or placeBid whose credential is missing or fails
\* verification is rejected before any store read or write, with AuthMissing
\* (401) when no credential is presented and AuthInvalid (403) when one is
\* presented but fails verification; no such request reaches its handler.
C15_AuthFailuresShortCircuit ==
  [][ /\ ( /\ out.kind = "none"
           /\ out'.kind \in {"create", "bid"}
           /\ "header" \in DOMAIN out'
           /\ (out'.header.scheme = "none" \/ out'.header.token = BadToken) ) =>
             /\ pc' = pc /\ item' = item
             /\ auctions' = auctions /\ users' = users
             /\ IF out'.header.scheme = "none"
                THEN out'.outcome = "AuthMissing" /\ out'.status = 401
                ELSE out'.outcome = "AuthInvalid" /\ out'.status = 403
      /\ \A p \in Procs :
           /\ req'[p].kind = "bid" => req'[p].user # BadToken
           /\ req'[p].kind = "create" =>
                (req'[p].header.scheme # "none" /\ req'[p].header.token # BadToken)
    ]_vars

\* C16: a signup with a username that already exists (when the handler
\* looks it up) returns Conflict (400/409) and creates no second record: at
\* most one user record holds a given username, and a stored record, its
\* password digest included, is never changed or removed.
C16_DuplicateSignupConflicts ==
  /\ [](\A i, j \in DOMAIN users : users[i].username = users[j].username => i = j)
  /\ [][ /\ \A i \in DOMAIN users : i \in DOMAIN users' /\ users'[i] = users[i]
         /\ \A p \in Procs :
              /\ ( /\ pc[p] = "idle"
                   /\ pc'[p] = "signupCheck"
                   /\ \E i \in DOMAIN users : users[i].username = req'[p].username ) =>
                     req'[p].existingUser
              /\ ( /\ pc[p] = "signupCheck"
                   /\ pc'[p] # "signupCheck"
                   /\ req[p].existingUser ) =>
                     /\ out'.kind = "signup"
                     /\ out'.outcome = "Conflict"
                     /\ out'.status \in {400, 409}
                     /\ users' = users ]_vars

\* A second signup under a stored username was turned down.
C16_Witness ==
  /\ out.kind = "signup"
  /\ out.outcome = "Conflict"
  /\ Cardinality({i \in DOMAIN users : users[i].username = out.username}) = 1

\* C17: a view or placeBid whose identifier does not resolve to a stored
\* record returns NotFound (404) and leaves the store unchanged.
C17_UnresolvedIdIsNotFound ==
  [][ ( /\ out.kind = "none"
        /\ out'.kind \in {"view", "bid"}
        /\ out'.outcome \notin {"AuthMissing", "AuthInvalid"}
        /\ out'.id \notin DOMAIN auctions ) =>
          /\ out'.outcome = "NotFound"
          /\ out'.status = 404
          /\ ~out'.wrote
          /\ auctions' = auctions ]_vars

\* C18: after creation an auction's closingTime, itemName, description and
\* startingBid never change and no record is ever deleted; isClosed changes
\* only from false to true, and currentBid and highestBidder change only in
\* the save of an accepted bid.
C18_OnlyCloseAndBidMutate ==
  [][\A id \in DOMAIN auctions :
       /\ id \in DOMAIN auctions'
       /\ auctions'[id].closingTime = auctions[id].closingTime
       /\ auctions'[id].itemName = auctions[id].itemName
       /\ auctions'[id].description = auctions[id].description
       /\ auctions'[id].startingBid = auctions[id].startingBid
       /\ auctions'[id].isClosed # auctions[id].isClosed => auctions'[id].isClosed
       /\ ( \/ auctions'[id].currentBid # auctions[id].currentBid
            \/ auctions'[id].highestBidder # auctions[id].highestBidder ) =>
              /\ out'.kind = "bid"
              /\ out'.outcome = "BidAccepted"
              /\ out'.id = id
              /\ auctions'[id].currentBid = out'.bid ]_vars

\* A view has closed an auction that holds a bid; what it was created with
\* still stands.
C18_Witness ==
  /\ out.kind = "view"
  /\ out.wrote
  /\ auctions[out.id].isClosed
  /\ auctions[out.id].highestBidder \notin {"", Null}
  /\ auctions[out.id].currentBid > auctions[out.id].startingBid
  /\ auctions[out.id].closingTime = out.read.closingTime

\* C19: every placeBid rejected because the auction is closed, already
\* marked or found expired in this call, is answered with a 400-class
\* status, never with a success status.
C19_ClosedBidIsAFailure ==
  (out.kind = "bid" /\ out.outcome = "AuctionClosed") =>
    (out.status >= 400 /\ out.status < 500)

\* C20: the identity gate accepts a valid token in both header shapes,
\* 'Authorization: Bearer <token>' and the raw token without the prefix: a
\* protected request carrying either is not turned down by authenticate.
C20_BothHeaderShapesAccepted ==
  ( /\ out.kind \in {"create", "bid"}
    /\ "header" \in DOMAIN out
    /\ out.header.scheme \in {"Bearer", "Raw"}
    /\ out.header.token # BadToken ) =>
      /\ out.outcome \notin {"AuthMissing", "AuthInvalid"}
      /\ out.status \notin {401, 403}

\* C21: signin issues a token, with the userId and username of the stored
\* user, if and only if a user with the given username exists and the
\* password verifies against its digest; otherwise it returns
\* invalid-credentials; in every case the Credential Store is unchanged.
C21_SigninIssuesTokenIffVerified ==
  [][ (out.kind = "none" /\ out'.kind = "signin") =>
        LET match == {i \in DOMAIN users :
                        /\ users[i].username = out'.username
                        /\ users[i].password = <<"bcrypt", out'.password>>}
        IN /\ users' = users
           /\ auctions' = auctions
           /\ IF match # {}
              THEN /\ out'.outcome = "SignedIn"
                   /\ out'.status = 200
                   /\ \E i \in match :
                        out'.token = [userId |-> UserId(i), username |-> out'.username]
              ELSE /\ out'.outcome = "InvalidCredentials"
                   /\ out'.status \in {400, 401}
                   /\ "token" \notin DOMAIN out' ]_vars

\* C22: once the stored isClosed of an auction is true, its stored currentBid
\* and highestBidder never change again, under any interleaving of view and
\* placeBid requests.
C22_WinnerIsFinal ==
  [][\A id \in DOMAIN auctions :
       auctions[id].isClosed =>
         /\ auctions'[id].currentBid = auctions[id].currentBid
         /\ auctions'[id].highestBidder = auctions[id].highestBidder]_vars

\* C23: no bid takes effect after the auction's closing time: every store
\* write that changes currentBid or highestBidder happens at a time not
\* later than closingTime.
C23_NoBidLandsAfterClosingTime ==
  [][\A id \in DOMAIN auctions :
       ( \/ auctions'[id].currentBid # auctions[id].currentBid
         \/ auctions'[id].highestBidder # auctions[id].highestBidder ) =>
           now <= auctions[id].closingTime]_vars

\* C24: under any interleaving of concurrent signup requests with the same
\* username, at most one user record with that username exists and at most
\* one of the requests reports success (201): every 201 adds the one record
\* of its username, and no other answer adds a record.
C24_OneSignupWinsTheRace ==
  /\ [](\A i \in DOMAIN users :
          Cardinality({j \in DOMAIN users : users[j].username = users[i].username}) = 1)
  /\ [][ (out.kind = "none" /\ out'.kind = "signup") =>
           IF out'.status = 201
           THEN /\ \A i \in DOMAIN users : users[i].username # out'.username
                /\ Len(users') = Len(users) + 1
                /\ users'[Len(users')].username = out'.username
           ELSE users' = users ]_vars

\* The loser of a race: its lookup found nothing, its save was refused.
C24_Witness ==
  /\ out.kind = "signup"
  /\ out.outcome = "StorageError"
  /\ out.status = 500
  /\ Cardinality({i \in DOMAIN users : users[i].username = out.username}) = 1

\* C25: the list filters agree with the bid rule at every instant: every
\* stored auction is returned by exactly one of status=active and
\* status=closed, and by status=active exactly when a placeBid with a
\* sufficient amount at that instant would be accepted; listing never writes.
C25_ListFiltersAgreeWithBidRule ==
  /\ [](out.kind = "list" =>
          LET biddable == {id \in DOMAIN auctions :
                             /\ ~auctions[id].isClosed
                             /\ ~Expired(out.at, auctions[id].closingTime)}
          IN /\ out.filter = "active" => out.ids = biddable
             /\ out.filter = "closed" => out.ids = DOMAIN auctions \ biddable)
  /\ [][(out.kind = "none" /\ out'.kind = "list") =>
          (auctions' = auctions /\ users' = users)]_vars
====
